---- MODULE Spec2Model ----
(***************************************************************************)
(* A model of the parametric steel girder bridge scripts: the module-level *)
(* parameters of bridge_model.py, the loading of that module, the builder   *)
(* functions (placement arithmetic on opaque solids) and main().            *)
(*                                                                          *)
(* Lengths are millimetres.  Python's true division "/" is modelled by      *)
(* exact rational arithmetic (a pair <<numerator, denominator>> in lowest   *)
(* terms); the rounding of IEEE doubles is not modelled.  A solid is        *)
(* modelled by its axis-aligned extent, or by the arguments and the         *)
(* translation that place it.                                               *)
(***************************************************************************)
EXTENDS Integers, Sequences, FiniteSets, TLC

VARIABLES
    params,                       \* the module-level parameters of bridge_model.py
    module,                       \* "unloaded", "loaded" or "failed": the import of bridge_model
    cross_bracing_section_props,  \* the module-level value computed while loading
    call,                         \* the most recent call: [fn, args, ret]
    pc,                           \* "import", "ready", "called", or the position of main()
    bridge,                       \* main()'s local: what assemble_bridge returned
    displayed,                    \* the groups handed to the viewer, in order
    history                       \* what a run of builder calls has seen so far

vars == <<params, module, cross_bracing_section_props, call, pc, bridge, displayed, history>>

None == "None"

(***************************************************************************)
(* Exact rational arithmetic for Python's "/".                              *)
(***************************************************************************)
Abs(a) == IF a < 0 THEN -a ELSE a

RECURSIVE GCD(_, _)
GCD(a, b) == IF b = 0 THEN a ELSE GCD(b, a % b)

RNorm(n, d) ==
    LET g == GCD(Abs(n), Abs(d))
        s == IF d < 0 THEN -1 ELSE 1
    IN  <<(s * n) \div g, (s * d) \div g>>

R(n) == <<n, 1>>
RAdd(a, b) == RNorm(a[1] * b[2] + b[1] * a[2], a[2] * b[2])
RSub(a, b) == RNorm(a[1] * b[2] - b[1] * a[2], a[2] * b[2])
RMul(a, b) == RNorm(a[1] * b[1], a[2] * b[2])
RDiv(a, b) == RNorm(a[1] * b[2], a[2] * b[1])
RNeg(a) == <<-a[1], a[2]>>
RHalf(a) == RDiv(a, R(2))
RLt(a, b) == a[1] * b[2] < b[1] * a[2]
RLe(a, b) == a[1] * b[2] <= b[1] * a[2]

\* int(): truncation toward zero
Trunc(a) == IF a[1] >= 0 THEN a[1] \div a[2] ELSE -((-a[1]) \div a[2])

(***************************************************************************)
(* The returned value or the raised exception of a call.                    *)
(***************************************************************************)
Return(v) == [exc |-> "none", val |-> v]
Raise(e) == [exc |-> e, val |-> None]
Returned(r) == r.exc = "none"

(***************************************************************************)
(* sections/section_database.py                                             *)
(***************************************************************************)
ISA_SECTIONS ==
    [d \in {"ISA_100x100x8", "ISA_90x60x6", "ISA_75x75x6"} |->
        CASE d = "ISA_100x100x8" -> [leg_h |-> 100, leg_w |-> 100, thickness |-> 8]
          [] d = "ISA_90x60x6"   -> [leg_h |-> 90, leg_w |-> 60, thickness |-> 6]
          [] d = "ISA_75x75x6"   -> [leg_h |-> 75, leg_w |-> 75, thickness |-> 6]]

CHANNEL_SECTIONS ==
    [d \in {"ISMC_100", "ISMC_125", "ISMC_150"} |->
        CASE d = "ISMC_100" -> [depth |-> R(100), flange_width |-> R(50),
                                web_thickness |-> R(5), flange_thickness |-> R(7)]
          [] d = "ISMC_125" -> [depth |-> R(125), flange_width |-> R(65),
                                web_thickness |-> <<53, 10>>, flange_thickness |-> R(8)]
          [] d = "ISMC_150" -> [depth |-> R(150), flange_width |-> R(75),
                                web_thickness |-> <<57, 10>>, flange_thickness |-> <<17, 2>>]]

SECTION_DATABASE ==
    [t \in {"ANGLE", "CHANNEL"} |->
        IF t = "ANGLE" THEN ISA_SECTIONS ELSE CHANNEL_SECTIONS]

get_section_props(section_type, designation) ==
    IF section_type \notin DOMAIN SECTION_DATABASE
    THEN Raise("ValueError")
    ELSE LET db == SECTION_DATABASE[section_type]
         IN  IF designation \notin DOMAIN db
             THEN Raise("ValueError")
             ELSE Return(db[designation])

(***************************************************************************)
(* bridge_model.py: the module-level parameters.                            *)
(***************************************************************************)
Defaults ==
    [span_length_L |-> 25000,
     girder_section_d |-> 900,
     girder_section_bf |-> 500,
     girder_section_tf |-> 260,
     girder_section_tw |-> 100,
     num_girders |-> 5,
     girder_spacing |-> 2750,
     carriageway_width |-> 12000,
     deck_thickness |-> 400,
     footpath_config |-> "BOTH",
     footpath_width |-> 2000,
     cross_bracing_spacing |-> 4000,
     cross_bracing_thickness |-> 100,
     bracing_type |-> "X",
     x_bracket_option |-> "BOTH",
     k_top_bracket |-> TRUE,
     cross_bracing_section_type |-> "DOUBLE_ANGLE",
     cross_bracing_section_name |-> "ISA_90x60x6",
     cross_bracing_connection |-> "LONGER_LEG",
     crash_barrier_width |-> 175,
     crash_barrier_height |-> 900,
     crash_barrier_base_width |-> 450,
     railing_width |-> 375,
     railing_height |-> 1100,
     rail_count |-> 3,
     stiffener_width |-> 200,
     stiffener_length |-> 300]

(***************************************************************************)
(* The parameter sets explored: the defaults, and the revisions of the      *)
(* parameter block that change one family of parameters.                    *)
(***************************************************************************)
MaxGirders == 5
MaxRailCount == 3

GirderCounts == (2 .. MaxGirders) \cup {11, 12}
GirderSpacings == {1000, 2125, 2750, 6000}
SpanLengths == {20000, 25000, 30000, 45000}
BracingSpacings == {1000, 4000, 7000, 25000}
DeckThicknesses == {100, 400, 500}
FootpathConfigs == {"NONE", "LEFT", "RIGHT", "BOTH", "CENTER"}
FootpathWidths == {1501, 2000}
CarriagewayWidths == {7501, 12000}
BarrierBaseWidths == {450, 451}
RailingWidths == {300, 375}
RailCounts == 1 .. MaxRailCount
SectionTypes == {"BOX", "ANGLE", "DOUBLE_ANGLE", "CHANNEL", "DOUBLE_CHANNEL", "PIPE"}
SectionNames == {"ISA_100x100x8", "ISA_90x60x6", "ISA_75x75x6",
                 "ISMC_100", "ISMC_125", "ISMC_150", "ISHB_150"}
BracingTypes == {"X", "K", "Z"}
BracketOptions == {"NONE", "LOWER", "UPPER", "BOTH", "both"}

\* a revision whose module loads and whose bracing is built from properties
Loadable ==
    [Defaults EXCEPT !.cross_bracing_section_type = "ANGLE", !.bracing_type = "K"]

SectionRevisions ==
    {[Defaults EXCEPT !.cross_bracing_section_type = t,
                      !.cross_bracing_section_name = n] :
        t \in SectionTypes, n \in SectionNames}

GirderRevisions ==
    {[Loadable EXCEPT !.num_girders = ng, !.girder_spacing = gs, !.deck_thickness = dt] :
        ng \in GirderCounts, gs \in GirderSpacings, dt \in DeckThicknesses}

SpanRevisions ==
    {[Loadable EXCEPT !.span_length_L = sl, !.cross_bracing_spacing = cbs,
                      !.deck_thickness = dt] :
        sl \in SpanLengths, cbs \in BracingSpacings, dt \in DeckThicknesses}

FootpathRevisions ==
    {[Loadable EXCEPT !.footpath_config = fc, !.footpath_width = fw,
                      !.carriageway_width = cw, !.crash_barrier_base_width = b,
                      !.railing_width = rw] :
        fc \in FootpathConfigs, fw \in FootpathWidths, cw \in CarriagewayWidths,
        b \in BarrierBaseWidths, rw \in RailingWidths}

RailingRevisions ==
    {[Loadable EXCEPT !.footpath_config = fc, !.railing_width = rw, !.rail_count = rc] :
        fc \in FootpathConfigs, rw \in RailingWidths, rc \in RailCounts}

BracingRevisions ==
    {[Loadable EXCEPT !.bracing_type = bt, !.x_bracket_option = xo,
                      !.k_top_bracket = kt, !.cross_bracing_section_type = t,
                      !.cross_bracing_section_name = n] :
        bt \in BracingTypes, xo \in BracketOptions, kt \in BOOLEAN,
        t \in {"ANGLE", "CHANNEL"}, n \in {"ISA_90x60x6", "ISMC_125"}}

ParamSpace ==
    {Defaults} \cup SectionRevisions \cup GirderRevisions \cup SpanRevisions
               \cup FootpathRevisions \cup RailingRevisions \cup BracingRevisions

\* an optional argument: the default None, or the value supplied
NotSupplied == <<>>
Supplied(v) == <<v>>

(***************************************************************************)
(* validation.py                                                            *)
(***************************************************************************)
\* mutant: the lower carriageway bound accepted (<= written as <)
validate_bridge_inputs_mutant(num_girders, girder_spacing, span_length, cross_bracing_spacing, deck_thickness) ==
    IF num_girders <= 2 \/ num_girders >= 12 THEN Raise("ValueError")
    ELSE IF girder_spacing <= 1000 \/ girder_spacing >= 24000 THEN Raise("ValueError")
    ELSE IF span_length <= 20000 \/ span_length >= 45000 THEN Raise("ValueError")
    ELSE IF cross_bracing_spacing <= 1000 THEN Raise("ValueError")
    ELSE IF cross_bracing_spacing >= span_length THEN Raise("ValueError")
    ELSE LET carriageway_width == (num_girders - 1) * girder_spacing
         IN  IF carriageway_width < 4250 \/ carriageway_width >= 24000
             THEN Raise("ValueError")
             ELSE IF deck_thickness # NotSupplied
                     /\ (deck_thickness[1] <= 100 \/ deck_thickness[1] >= 500)
                  THEN Raise("ValueError")
                  ELSE Return(None)

validate_bridge_inputs(num_girders, girder_spacing, span_length, cross_bracing_spacing, deck_thickness) ==
    IF num_girders <= 2 \/ num_girders >= 12 THEN Raise("ValueError")
    ELSE IF girder_spacing <= 1000 \/ girder_spacing >= 24000 THEN Raise("ValueError")
    ELSE IF span_length <= 20000 \/ span_length >= 45000 THEN Raise("ValueError")
    ELSE IF cross_bracing_spacing <= 1000 THEN Raise("ValueError")
    ELSE IF cross_bracing_spacing >= span_length THEN Raise("ValueError")
    ELSE LET carriageway_width == (num_girders - 1) * girder_spacing
         IN  IF carriageway_width <= 4250 \/ carriageway_width >= 24000
             THEN Raise("ValueError")
             ELSE IF deck_thickness # NotSupplied
                     /\ (deck_thickness[1] <= 100 \/ deck_thickness[1] >= 500)
                  THEN Raise("ValueError")
                  ELSE Return(None)

(***************************************************************************)
(* Solids.  A solid is its shape in the frame it was constructed in (never  *)
(* changed afterwards) and the translation applied to it since: "at", the   *)
(* place of its construction origin.  A box-like shape is its extent [lo,   *)
(* hi] and the extents cut out of it.                                       *)
(***************************************************************************)
Origin == <<R(0), R(0), R(0)>>
VAdd(a, b) == <<RAdd(a[1], b[1]), RAdd(a[2], b[2]), RAdd(a[3], b[3])>>
RMin(a, b) == IF RLe(a, b) THEN a ELSE b
RMax(a, b) == IF RLe(a, b) THEN b ELSE a
VMin(a, b) == <<RMin(a[1], b[1]), RMin(a[2], b[2]), RMin(a[3], b[3])>>
VMax(a, b) == <<RMax(a[1], b[1]), RMax(a[2], b[2]), RMax(a[3], b[3])>>

\* BRepPrimAPI_MakeBox(dx, dy, dz): one corner at the origin
BRepPrimAPI_MakeBox(dx, dy, dz) ==
    [kind |-> "box", at |-> Origin,
     shape |-> [lo |-> Origin, hi |-> <<dx, dy, dz>>, cuts |-> <<>>]]

\* BRepBuilderAPI_Transform(shape, translation, copy): a new solid, moved
Translate(solid, x, y, z) == [solid EXCEPT !.at = VAdd(@, <<x, y, z>>)]

\* the extent of a box-like solid in global coordinates
Lo(solid) == VAdd(solid.shape.lo, solid.at)
Hi(solid) == VAdd(solid.shape.hi, solid.at)
GlobalCuts(solid) ==
    [i \in 1 .. Len(solid.shape.cuts) |->
        [lo |-> VAdd(solid.shape.cuts[i].lo, solid.at),
         hi |-> VAdd(solid.shape.cuts[i].hi, solid.at)]]

\* BRepAlgoAPI_Cut(a, b) and BRepAlgoAPI_Fuse(a, b): new solids in global coordinates
BRepAlgoAPI_Cut(a, b) ==
    [kind |-> a.kind, at |-> Origin,
     shape |-> [lo |-> Lo(a), hi |-> Hi(a),
                cuts |-> Append(GlobalCuts(a), [lo |-> Lo(b), hi |-> Hi(b)])]]

BRepAlgoAPI_Fuse(a, b) ==
    [kind |-> "fused", at |-> Origin,
     shape |-> [lo |-> VMin(Lo(a), Lo(b)), hi |-> VMax(Hi(a), Hi(b)),
                cuts |-> GlobalCuts(a) \o GlobalCuts(b)]]

(***************************************************************************)
(* draw_rectangular_prism.py                                                *)
(***************************************************************************)
\* mutant: the box left with its corner at the origin in Y
create_rectangular_prism_mutant(length, breadth, height) ==
    Translate(BRepPrimAPI_MakeBox(length, breadth, height),
              RNeg(RHalf(length)), R(0), R(0))

create_rectangular_prism(length, breadth, height) ==
    Translate(BRepPrimAPI_MakeBox(length, breadth, height),
              RNeg(RHalf(length)), RNeg(RHalf(breadth)), R(0))

(***************************************************************************)
(* deck.py                                                                  *)
(***************************************************************************)
create_deck_slab(span_length, deck_width, deck_thickness, girder_depth) ==
    LET slab == create_rectangular_prism(R(span_length), R(deck_width), R(deck_thickness))
    IN  Translate(slab, RHalf(R(span_length)), R(0), R(girder_depth))

(***************************************************************************)
(* railing.py                                                               *)
(***************************************************************************)
translate(shape, x, y, z) == Translate(shape, x, y, z)

BASE_HEIGHT == 100

RECURSIVE CutHoles(_, _, _, _, _, _)
CutHoles(body, i, rail_count, length, width, body_height) ==
    IF i >= rail_count THEN body
    ELSE LET hole_length == RMul(R(1), R(length))
             hole_width == RMul(<<3, 5>>, R(width))
             hole_height == RMul(<<1, 2>>, RDiv(R(body_height), R(rail_count)))
             spacing == RDiv(R(body_height), R(rail_count + 1))
             z_center == RAdd(R(BASE_HEIGHT), RMul(R(i + 1), spacing))
             y_offset == RMul(<<-1, 5>>, R(width))
             hole == translate(
                        create_rectangular_prism(hole_length, hole_width, hole_height),
                        RHalf(RSub(R(length), hole_length)),
                        RAdd(RHalf(RSub(R(width), hole_width)), y_offset),
                        RSub(z_center, RHalf(hole_height)))
         IN  CutHoles(BRepAlgoAPI_Cut(body, hole), i + 1, rail_count,
                      length, width, body_height)

create_railing(length, width, height, rail_count) ==
    LET body_height == height - BASE_HEIGHT
    IN  IF body_height <= 0 THEN Raise("ValueError")
        ELSE LET base == create_rectangular_prism(R(length), R(width), R(BASE_HEIGHT))
                 body == translate(
                            create_rectangular_prism(R(length), R(width), R(body_height)),
                            R(0), R(0), R(BASE_HEIGHT))
                 body_with_holes == CutHoles(body, 0, rail_count, length, width, body_height)
             IN  Return(BRepAlgoAPI_Fuse(base, body_with_holes))

\* mutant: x and y passed in the wrong order
place_railing_mutant(railing, x, y, z) == translate(railing, y, x, z)

place_railing(railing, x, y, z) == translate(railing, x, y, z)

(***************************************************************************)
(* bridge_model.py: deck width, carriageway offset, deck, railings.         *)
(***************************************************************************)
\* the first definition of calculate_deck_width, rebound by the second
calculate_deck_width_first(footpath_config) ==
    IF footpath_config = "NONE"
    THEN Return(params.carriageway_width + 2 * params.crash_barrier_base_width)
    ELSE IF footpath_config = "LEFT" \/ footpath_config = "RIGHT"
    THEN Return(params.carriageway_width + 2 * params.crash_barrier_base_width
                + params.footpath_width + params.railing_width)
    ELSE IF footpath_config = "BOTH"
    THEN Return(params.carriageway_width + 2 * params.crash_barrier_base_width
                + 2 * params.footpath_width + 2 * params.railing_width)
    ELSE Raise("ValueError")

\* mutant: the railing forgotten on a single footpath
calculate_deck_width_mutant(footpath_config) ==
    IF footpath_config = "NONE"
    THEN Return(params.carriageway_width + 2 * params.crash_barrier_base_width)
    ELSE IF footpath_config = "LEFT" \/ footpath_config = "RIGHT"
    THEN Return(params.carriageway_width + 2 * params.crash_barrier_base_width
                + params.footpath_width)
    ELSE IF footpath_config = "BOTH"
    THEN Return(params.carriageway_width + 2 * params.crash_barrier_base_width
                + 2 * params.footpath_width + 2 * params.railing_width)
    ELSE Raise("ValueError")

\* the second definition: the one the name is bound to once the module is loaded
calculate_deck_width(footpath_config) ==
    IF footpath_config = "NONE"
    THEN Return(params.carriageway_width + 2 * params.crash_barrier_base_width)
    ELSE IF footpath_config = "LEFT" \/ footpath_config = "RIGHT"
    THEN Return(params.carriageway_width + 2 * params.crash_barrier_base_width
                + params.footpath_width + params.railing_width)
    ELSE IF footpath_config = "BOTH"
    THEN Return(params.carriageway_width + 2 * params.crash_barrier_base_width
                + 2 * params.footpath_width + 2 * params.railing_width)
    ELSE Raise("ValueError")

\* mutant: the sign of the RIGHT offset lost
calculate_carriageway_offset_mutant(footpath_config) ==
    IF footpath_config = "NONE" \/ footpath_config = "BOTH"
    THEN Return(R(0))
    ELSE IF footpath_config = "LEFT"
    THEN Return(RHalf(R(params.footpath_width + params.railing_width)))
    ELSE IF footpath_config = "RIGHT"
    THEN Return(RHalf(R(params.footpath_width + params.railing_width)))
    ELSE Raise("ValueError")

calculate_carriageway_offset(footpath_config) ==
    IF footpath_config = "NONE" \/ footpath_config = "BOTH"
    THEN Return(R(0))
    ELSE IF footpath_config = "LEFT"
    THEN Return(RHalf(R(params.footpath_width + params.railing_width)))
    ELSE IF footpath_config = "RIGHT"
    THEN Return(RNeg(RHalf(R(params.footpath_width + params.railing_width))))
    ELSE Raise("ValueError")

build_deck ==
    LET total_deck_width == calculate_deck_width(params.footpath_config)
    IN  IF ~Returned(total_deck_width) THEN total_deck_width
        ELSE Return(create_deck_slab(params.span_length_L, total_deck_width.val,
                                     params.deck_thickness, params.girder_section_d))

build_railing(deck_top_z) ==
    IF params.footpath_config = "NONE" THEN Return(<<>>)
    ELSE LET base_railing == create_railing(params.span_length_L, params.railing_width,
                                            params.railing_height, params.rail_count)
             total_deck_width == calculate_deck_width(params.footpath_config)
         IN  IF ~Returned(base_railing) THEN base_railing
             ELSE IF ~Returned(total_deck_width) THEN total_deck_width
             ELSE LET deck_half_width == RHalf(R(total_deck_width.val))
                      fc == params.footpath_config
                      left ==
                          IF fc = "LEFT" \/ fc = "BOTH"
                          THEN <<place_railing(
                                    base_railing.val,
                                    RHalf(R(params.span_length_L)),
                                    RNeg(RSub(deck_half_width, RHalf(R(params.railing_width)))),
                                    R(deck_top_z))>>
                          ELSE <<>>
                      right ==
                          IF fc = "RIGHT" \/ fc = "BOTH"
                          THEN <<place_railing(
                                    base_railing.val,
                                    RHalf(R(params.span_length_L)),
                                    RSub(deck_half_width, RHalf(R(params.railing_width))),
                                    R(deck_top_z))>>
                          ELSE <<>>
                  IN  Return(left \o right)

(***************************************************************************)
(* crash_barriers.py.  The left and right constructors bridge_model imports *)
(* are not part of these sources: a barrier is the opaque solid its         *)
(* constructor returns, known by its arguments.                             *)
(***************************************************************************)
create_crash_barrier_right(length, width, height, base_width) ==
    [kind |-> "crash_barrier_right", at |-> Origin,
     shape |-> [length |-> length, width |-> width, height |-> height,
                base_width |-> base_width]]

create_crash_barrier_left(length, width, height, base_width) ==
    [kind |-> "crash_barrier_left", at |-> Origin,
     shape |-> [length |-> length, width |-> width, height |-> height,
                base_width |-> base_width]]

\* mutant: the barrier placed on the other side of the centerline
place_crash_barrier_mutant(barrier, x, y, z) == Translate(barrier, x, RNeg(y), z)

\* mirror is left at its default, False, by every caller
place_crash_barrier(barrier, x, y, z) == Translate(barrier, x, y, z)

(***************************************************************************)
(* bridge_model.py: crash barriers.                                         *)
(***************************************************************************)
build_crash_barrier(deck_top_z) ==
    LET fc == params.footpath_config
        total_deck_width == calculate_deck_width(fc)
        carriageway_offset == calculate_carriageway_offset(fc)
    IN  IF ~Returned(total_deck_width) THEN total_deck_width
        ELSE IF ~Returned(carriageway_offset) THEN carriageway_offset
        ELSE
        LET deck_half_width == RHalf(R(total_deck_width.val))
            carriageway_half_width == RHalf(R(params.carriageway_width))
            carriageway_right_edge == RAdd(carriageway_offset.val, carriageway_half_width)
            carriageway_left_edge == RSub(carriageway_offset.val, carriageway_half_width)
            half_base == RHalf(R(params.crash_barrier_base_width))
            barrier_right == create_crash_barrier_right(
                                params.span_length_L, params.crash_barrier_width,
                                params.crash_barrier_height, params.crash_barrier_base_width)
            barrier_left == create_crash_barrier_left(
                                params.span_length_L, params.crash_barrier_width,
                                params.crash_barrier_height, params.crash_barrier_base_width)
            right_at_deck_edge ==
                place_crash_barrier(barrier_right, R(0),
                                    RSub(deck_half_width, half_base), R(deck_top_z))
            left_at_deck_edge ==
                place_crash_barrier(barrier_left, R(0),
                                    RAdd(RNeg(deck_half_width), half_base), R(deck_top_z))
            right_at_carriageway ==
                place_crash_barrier(barrier_right, R(0),
                                    RAdd(carriageway_right_edge, half_base), R(deck_top_z))
            left_at_carriageway ==
                place_crash_barrier(barrier_left, R(0),
                                    RSub(carriageway_left_edge, half_base), R(deck_top_z))
        IN  IF fc = "NONE" THEN Return(<<right_at_deck_edge, left_at_deck_edge>>)
            ELSE IF fc = "LEFT" THEN Return(<<right_at_deck_edge, left_at_carriageway>>)
            ELSE IF fc = "RIGHT" THEN Return(<<left_at_deck_edge, right_at_carriageway>>)
            ELSE IF fc = "BOTH" THEN Return(<<right_at_carriageway, left_at_carriageway>>)
            ELSE Return(<<>>)

(***************************************************************************)
(* sections/stiffener_plate.py, and the I-section it is consistent with.    *)
(***************************************************************************)
\* draw_i_section.create_i_section is not part of these sources; the bracing
\* and stiffener code document its frame: the section starts at y = 0 (its
\* left flange edge) and runs along +X.
create_i_section(length, bf, d, tf, tw) ==
    [kind |-> "i_section", at |-> Origin,
     shape |-> [lo |-> Origin, hi |-> <<R(length), R(bf), R(d)>>, cuts |-> <<>>,
                tf |-> tf, tw |-> tw]]

create_girder_stiffeners(girder_depth, girder_flange_thickness, girder_web_thickness, girder_flange_width, stiffener_width, stiffener_length, x_offset) ==
    LET stiffener_height == girder_depth - 2 * girder_flange_thickness
        plate == BRepPrimAPI_MakeBox(R(stiffener_length), R(stiffener_width),
                                     R(stiffener_height))
        z_offset == girder_flange_thickness
        web_left_face_y == RHalf(R(girder_flange_width - girder_web_thickness))
        web_right_face_y == RAdd(web_left_face_y, R(girder_web_thickness))
        left == Translate(plate, R(x_offset),
                          RSub(web_left_face_y, R(stiffener_width)), R(z_offset))
        right == Translate(plate, R(x_offset), web_right_face_y, R(z_offset))
    IN  <<left, right>>

(***************************************************************************)
(* bridge_model.py: girders.                                                *)
(***************************************************************************)
girder_y_offset(i) ==
    LET total_width == (params.num_girders - 1) * params.girder_spacing
    IN  RSub(R(i * params.girder_spacing), RHalf(R(total_width)))

build_girders ==
    LET girder == create_i_section(params.span_length_L, params.girder_section_bf,
                                   params.girder_section_d, params.girder_section_tf,
                                   params.girder_section_tw)
        pair == create_girder_stiffeners(
                    params.girder_section_d, params.girder_section_tf,
                    params.girder_section_tw, params.girder_section_bf,
                    params.stiffener_width, params.stiffener_length,
                    params.span_length_L - params.stiffener_length)
        n == params.num_girders
    IN  Return([girders |->
                    [j \in 1 .. n |-> Translate(girder, R(0), girder_y_offset(j - 1), R(0))],
                stiffeners |->
                    [j \in 1 .. 2 * n |->
                        Translate(pair[2 - (j % 2)], R(0),
                                  girder_y_offset((j - 1) \div 2), R(0))]])

(***************************************************************************)
(* sections/section_factory.py and the roll rules of section_database.py.   *)
(* A section solid is opaque: its type, length and properties.              *)
(***************************************************************************)
\* section_props=None, and the test for it
NoProps == [none |-> TRUE]
IsNone(section_props) == "none" \in DOMAIN section_props

HasKeys(section_props, keys) == keys \subseteq DOMAIN section_props

SectionSolid(section_type, length, section_props) ==
    Return([section |-> section_type, length |-> length, props |-> section_props])

create_section_solid(section_type, length, thickness, section_props) ==
    IF section_type = "BOX"
    THEN Return([section |-> "BOX", length |-> length, props |-> thickness])
    ELSE IF section_type \in {"ANGLE", "DOUBLE_ANGLE", "CHANNEL", "DOUBLE_CHANNEL"}
    THEN IF IsNone(section_props) THEN Raise("TypeError")
         ELSE IF section_type \in {"ANGLE", "DOUBLE_ANGLE"}
         THEN IF ~HasKeys(section_props, {"leg_h", "leg_w", "thickness"})
              THEN Raise("KeyError")
              ELSE IF /\ section_type = "DOUBLE_ANGLE"
                      /\ "connection_type" \in DOMAIN section_props
                      /\ section_props.connection_type \notin {"LONGER_LEG", "SHORTER_LEG"}
              THEN Raise("ValueError")
              ELSE SectionSolid(section_type, length, section_props)
         ELSE IF ~HasKeys(section_props, {"depth", "flange_width", "web_thickness",
                                          "flange_thickness"})
              THEN Raise("KeyError")
              ELSE SectionSolid(section_type, length, section_props)
    ELSE Raise("ValueError")

\* the literals 1.5708 and 2*1.5708
HalfTurn == RMul(R(2), RNorm(15708, 10000))

get_section_roll_angle(section_type, member_role, roll_sign) ==
    IF section_type = "ANGLE"
    THEN IF member_role = "diagonal"
         THEN IF roll_sign > 0 THEN RNorm(15708, 10000) ELSE RNorm(-15708, 10000)
         ELSE IF member_role = "horizontal" THEN HalfTurn ELSE R(0)
    ELSE IF section_type = "CHANNEL"
    THEN IF member_role = "diagonal" THEN R(0)
         ELSE IF member_role = "horizontal" THEN HalfTurn ELSE R(0)
    ELSE R(0)

(***************************************************************************)
(* cross_bracing/: the package the name cross_bracing resolves to.          *)
(***************************************************************************)
Midpoint(p1, p2) ==
    <<RHalf(RAdd(p1[1], p2[1])), RHalf(RAdd(p1[2], p2[2])), RHalf(RAdd(p1[3], p2[3]))>>

create_diagonal_member(p1, p2, thickness, section_type, section_props, roll_sign) ==
    LET solid == create_section_solid(section_type, <<"distance", p1, p2>>,
                                      thickness, section_props)
    IN  IF ~Returned(solid) THEN solid
        ELSE Return([kind |-> "diagonal", at |-> Midpoint(p1, p2),
                     shape |-> [solid |-> solid.val, from |-> p1, to |-> p2,
                                roll |-> get_section_roll_angle(section_type, "diagonal",
                                                                roll_sign)]])

create_horizontal_member_y(x, y_left_girder_left_edge, y_right_girder_left_edge, z, thickness, flange_width, section_type, section_props, roll_sign) ==
    LET y_start == RAdd(y_left_girder_left_edge, R(flange_width))
        y_end == y_right_girder_left_edge
        length == RSub(y_end, y_start)
        y_mid == RHalf(RAdd(y_start, y_end))
        solid == create_section_solid(section_type, length, thickness, section_props)
    IN  IF ~Returned(solid) THEN solid
        ELSE Return([kind |-> "horizontal", at |-> <<x, y_mid, z>>,
                     shape |-> [solid |-> solid.val, from |-> <<x, y_start, z>>,
                                to |-> <<x, y_end, z>>,
                                roll |-> get_section_roll_angle(section_type, "horizontal",
                                                                roll_sign)]])

\* a list of members, or the first exception raised while building them
RECURSIVE Members(_, _, _)
Members(results, i, acc) ==
    IF i > Len(results) THEN Return(acc)
    ELSE IF ~Returned(results[i]) THEN results[i]
    ELSE Members(results, i + 1, Append(acc, results[i].val))

\* x_bracing.py.  Its members are always BOX sections with the default roll sign.
x_bracing_parameters ==
    {"x", "y_left", "y_right", "girder_depth", "flange_thickness", "thickness",
     "flange_width", "bracket_option"}

\* mutant: the bottom chord added for "LOWER" only
create_x_bracing_between_girders_mutant(x, y_left, y_right, girder_depth, flange_thickness, thickness, flange_width, bracket_option) ==
    LET z_bottom == RHalf(R(flange_thickness))
        z_top == RSub(R(girder_depth), RHalf(R(flange_thickness)))
        y_left_diagonal == RAdd(y_left, R(flange_width))
        y_right_diagonal == y_right
        d1 == create_diagonal_member(<<x, y_left_diagonal, z_bottom>>,
                                     <<x, y_right_diagonal, z_top>>, thickness, "BOX",
                                     NoProps, 1)
        d2 == create_diagonal_member(<<x, y_left_diagonal, z_top>>,
                                     <<x, y_right_diagonal, z_bottom>>, thickness, "BOX",
                                     NoProps, 1)
        bottom == IF bracket_option = "LOWER"
                  THEN <<create_horizontal_member_y(x, y_left, y_right, z_bottom, thickness,
                                                    flange_width, "BOX", NoProps, 1)>>
                  ELSE <<>>
        top == IF bracket_option \in {"UPPER", "BOTH"}
               THEN <<create_horizontal_member_y(x, y_left, y_right, z_top, thickness,
                                                 flange_width, "BOX", NoProps, 1)>>
               ELSE <<>>
    IN  Members(<<d1, d2>> \o bottom \o top, 1, <<>>)

create_x_bracing_between_girders(x, y_left, y_right, girder_depth, flange_thickness, thickness, flange_width, bracket_option) ==
    LET z_bottom == RHalf(R(flange_thickness))
        z_top == RSub(R(girder_depth), RHalf(R(flange_thickness)))
        y_left_diagonal == RAdd(y_left, R(flange_width))
        y_right_diagonal == y_right
        p1 == <<x, y_left_diagonal, z_bottom>>
        p2 == <<x, y_right_diagonal, z_top>>
        p3 == <<x, y_left_diagonal, z_top>>
        p4 == <<x, y_right_diagonal, z_bottom>>
        d1 == create_diagonal_member(p1, p2, thickness, "BOX", NoProps, 1)
        d2 == create_diagonal_member(p3, p4, thickness, "BOX", NoProps, 1)
        bottom == IF bracket_option \in {"LOWER", "BOTH"}
                  THEN <<create_horizontal_member_y(x, y_left, y_right, z_bottom, thickness,
                                                    flange_width, "BOX", NoProps, 1)>>
                  ELSE <<>>
        top == IF bracket_option \in {"UPPER", "BOTH"}
               THEN <<create_horizontal_member_y(x, y_left, y_right, z_top, thickness,
                                                 flange_width, "BOX", NoProps, 1)>>
               ELSE <<>>
    IN  Members(<<d1, d2>> \o bottom \o top, 1, <<>>)

\* k_bracing.py
k_bracing_parameters ==
    {"x", "y_left", "y_right", "girder_depth", "flange_thickness", "thickness",
     "flange_width", "top_bracket", "section_type", "section_props", "roll_sign"}

\* mutant: the diagonals meet midway between the girders' left edges
create_k_bracing_between_girders_mutant(x, y_left, y_right, girder_depth, flange_thickness, thickness, flange_width, top_bracket, section_type, section_props, roll_sign) ==
    LET z_bottom == RHalf(R(flange_thickness))
        z_top == RSub(R(girder_depth), RHalf(R(flange_thickness)))
        y_left_diagonal == RAdd(y_left, R(flange_width))
        y_right_diagonal == y_right
        y_mid == RHalf(RAdd(y_left, y_right))
        d1 == create_diagonal_member(<<x, y_left_diagonal, z_top>>, <<x, y_mid, z_bottom>>,
                                     thickness, section_type, section_props, 1)
        d2 == create_diagonal_member(<<x, y_right_diagonal, z_top>>, <<x, y_mid, z_bottom>>,
                                     thickness, section_type, section_props, 0)
        bottom == create_horizontal_member_y(x, y_left, y_right, z_bottom, thickness,
                                             flange_width, section_type, section_props,
                                             roll_sign)
        top == IF top_bracket
               THEN <<create_horizontal_member_y(x, y_left, y_right, z_top, thickness,
                                                 flange_width, section_type, section_props,
                                                 roll_sign)>>
               ELSE <<>>
    IN  Members(<<d1, d2, bottom>> \o top, 1, <<>>)

create_k_bracing_between_girders(x, y_left, y_right, girder_depth, flange_thickness, thickness, flange_width, top_bracket, section_type, section_props, roll_sign) ==
    LET z_bottom == RHalf(R(flange_thickness))
        z_top == RSub(R(girder_depth), RHalf(R(flange_thickness)))
        y_left_diagonal == RAdd(y_left, R(flange_width))
        y_right_diagonal == y_right
        y_mid == RHalf(RAdd(y_left_diagonal, y_right_diagonal))
        p1 == <<x, y_left_diagonal, z_top>>
        p2 == <<x, y_mid, z_bottom>>
        p3 == <<x, y_right_diagonal, z_top>>
        p4 == <<x, y_mid, z_bottom>>
        d1 == create_diagonal_member(p1, p2, thickness, section_type, section_props, 1)
        d2 == create_diagonal_member(p3, p4, thickness, section_type, section_props, 0)
        bottom == create_horizontal_member_y(x, y_left, y_right, z_bottom, thickness,
                                             flange_width, section_type, section_props,
                                             roll_sign)
        top == IF top_bracket
               THEN <<create_horizontal_member_y(x, y_left, y_right, z_top, thickness,
                                                 flange_width, section_type, section_props,
                                                 roll_sign)>>
               ELSE <<>>
    IN  Members(<<d1, d2, bottom>> \o top, 1, <<>>)

(***************************************************************************)
(* bridge_model.py: cross bracing.                                          *)
(***************************************************************************)
\* the concatenation of passes[lo .. hi]
RECURSIVE Concat(_, _, _)
Concat(passes, lo, hi) ==
    IF lo > hi THEN <<>>
    ELSE IF lo = hi THEN passes[lo].val
    ELSE LET mid == (lo + hi) \div 2
         IN  Concat(passes, lo, mid) \o Concat(passes, mid + 1, hi)

\* cross_bracings.extend(...) pass after pass: the whole list, or the
\* exception of the first pass that raises
ExtendAll(passes) ==
    LET raising == {j \in DOMAIN passes : ~Returned(passes[j])}
    IN  IF raising # {}
        THEN passes[CHOOSE j \in raising : \A k \in raising : j <= k]
        ELSE Return(Concat(passes, 1, Len(passes)))

\* the frame positions along the span, or ZeroDivisionError
FramePositions(span_length, bracing_spacing) ==
    LET n == Trunc(RDiv(R(span_length), R(bracing_spacing))) - 1
        n_total == n + 2
    IN  IF n_total - 1 = 0 THEN Raise("ZeroDivisionError")
        ELSE LET spacing == RDiv(R(span_length), R(n_total - 1))
             IN  Return([i \in 1 .. n_total |-> RMul(R(i - 1), spacing)])

\* the keyword arguments build_cross_bracing passes to either bracing function
x_bracing_keywords ==
    {"x", "y_left", "y_right", "girder_depth", "flange_thickness", "thickness",
     "flange_width", "bracket_option", "section_type", "section_props"}

k_bracing_keywords ==
    {"x", "y_left", "y_right", "girder_depth", "flange_thickness", "thickness",
     "flange_width", "top_bracket", "section_type", "section_props"}

\* one pass of the inner loop: the bracing between girders g and g + 1 at x
BracingBetween(x, g) ==
    LET total_width == (params.num_girders - 1) * params.girder_spacing
        y_left == RSub(R(g * params.girder_spacing), RHalf(R(total_width)))
        y_right == RSub(R((g + 1) * params.girder_spacing), RHalf(R(total_width)))
    IN  IF params.bracing_type = "X"
        THEN IF ~(x_bracing_keywords \subseteq x_bracing_parameters)
             THEN Raise("TypeError")
             ELSE create_x_bracing_between_girders(
                      x, y_left, y_right, params.girder_section_d,
                      params.girder_section_tf, params.cross_bracing_thickness,
                      params.girder_section_bf, params.x_bracket_option)
        ELSE IF params.bracing_type = "K"
        THEN IF ~(k_bracing_keywords \subseteq k_bracing_parameters)
             THEN Raise("TypeError")
             ELSE create_k_bracing_between_girders(
                      x, y_left, y_right, params.girder_section_d,
                      params.girder_section_tf, params.cross_bracing_thickness,
                      params.girder_section_bf, params.k_top_bracket,
                      params.cross_bracing_section_type, cross_bracing_section_props, 1)
        ELSE Raise("ValueError")

\* the two loops: every frame position, every pair of adjacent girders, in
\* order; the list extended pass by pass, or the first exception a pass raises
build_cross_bracing ==
    LET x_positions == FramePositions(params.span_length_L, params.cross_bracing_spacing)
        pairs == params.num_girders - 1
    IN  IF ~Returned(x_positions) THEN x_positions
        ELSE IF pairs <= 0 THEN Return(<<>>)
        ELSE ExtendAll([j \in 1 .. Len(x_positions.val) * pairs |->
                          BracingBetween(x_positions.val[((j - 1) \div pairs) + 1],
                                         (j - 1) % pairs)])

(***************************************************************************)
(* cross_bracing.py: the legacy module, shadowed by the package.            *)
(***************************************************************************)
legacy_make_diagonal_member(p1, p2, thickness) ==
    [kind |-> "diagonal", at |-> Midpoint(p1, p2),
     shape |-> [solid |-> [section |-> "BOX", length |-> <<"distance", p1, p2>>,
                           props |-> thickness],
                from |-> p1, to |-> p2, roll |-> R(0)]]

legacy_make_horizontal_member_y(y_left_girder_left_edge, y_right_girder_left_edge, x, z, thickness, flange_width) ==
    LET y_start == RAdd(y_left_girder_left_edge, R(flange_width))
        y_end == y_right_girder_left_edge
        length == RSub(y_end, y_start)
        y_mid == RHalf(RAdd(y_start, y_end))
    IN  [kind |-> "horizontal", at |-> <<x, y_mid, z>>,
         shape |-> [solid |-> [section |-> "BOX", length |-> length, props |-> thickness],
                    from |-> <<x, y_start, z>>, to |-> <<x, y_end, z>>, roll |-> R(0)]]

legacy_create_x_bracing_between_girders(x, y_left, y_right, girder_depth, flange_thickness, thickness, flange_width) ==
    LET z_bottom == RHalf(R(flange_thickness))
        z_top == RSub(R(girder_depth), RHalf(R(flange_thickness)))
        y_left_diagonal == RAdd(y_left, R(flange_width))
        y_right_diagonal == y_right
        d1 == legacy_make_diagonal_member(<<x, y_left_diagonal, z_bottom>>,
                                          <<x, y_right_diagonal, z_top>>, thickness)
        d2 == legacy_make_diagonal_member(<<x, y_left_diagonal, z_top>>,
                                          <<x, y_right_diagonal, z_bottom>>, thickness)
        bottom_member == legacy_make_horizontal_member_y(y_left, y_right, x, z_bottom,
                                                         thickness, flange_width)
        top_member == legacy_make_horizontal_member_y(y_left, y_right, x, z_top,
                                                      thickness, flange_width)
    IN  <<bottom_member, top_member, d1, d2>>

legacy_create_k_bracing_between_girders(x, y_left, y_right, girder_depth, flange_thickness, thickness, flange_width) ==
    LET z_bottom == RHalf(R(flange_thickness))
        z_top == RSub(R(girder_depth), RHalf(R(flange_thickness)))
        y_left_diagonal == RAdd(y_left, R(flange_width))
        y_right_diagonal == y_right
        y_mid == RHalf(RAdd(y_left_diagonal, y_right_diagonal))
        d1 == legacy_make_diagonal_member(<<x, y_left_diagonal, z_top>>,
                                          <<x, y_mid, z_bottom>>, thickness)
        d2 == legacy_make_diagonal_member(<<x, y_right_diagonal, z_top>>,
                                          <<x, y_mid, z_bottom>>, thickness)
        bottom_member == legacy_make_horizontal_member_y(y_left, y_right, x, z_bottom,
                                                         thickness, flange_width)
        top_member == legacy_make_horizontal_member_y(y_left, y_right, x, z_top,
                                                      thickness, flange_width)
    IN  <<bottom_member, top_member, d1, d2>>

\* str.upper() on the bracing types in use
Upper(str) ==
    CASE str = "x" -> "X"
      [] str = "k" -> "K"
      [] str = "z" -> "Z"
      [] OTHER -> str

\* one pass of the legacy inner loop; a: the arguments of create_cross_bracing
LegacyBracingBetween(x, g, a) ==
    LET total_width == (a.n_girders - 1) * a.girder_spacing
        y_left == RSub(R(g * a.girder_spacing), RHalf(R(total_width)))
        y_right == RSub(R((g + 1) * a.girder_spacing), RHalf(R(total_width)))
    IN  IF Upper(a.bracing_type) = "X"
        THEN Return(legacy_create_x_bracing_between_girders(
                        x, y_left, y_right, a.girder_depth, a.flange_thickness,
                        a.thickness, a.flange_width))
        ELSE IF Upper(a.bracing_type) = "K"
        THEN Return(legacy_create_k_bracing_between_girders(
                        x, y_left, y_right, a.girder_depth, a.flange_thickness,
                        a.thickness, a.flange_width))
        ELSE Raise("ValueError")

\* the legacy frame positions along the span, or ZeroDivisionError
LegacyFramePositions(span_length, bracing_spacing) ==
    LET n_intermediate == Trunc(RDiv(R(span_length), R(bracing_spacing))) - 1
        n_total == n_intermediate + 2
    IN  IF n_total - 1 = 0 THEN Raise("ZeroDivisionError")
        ELSE LET actual_spacing == RDiv(R(span_length), R(n_total - 1))
             IN  Return([i \in 1 .. n_total |-> RMul(R(i - 1), actual_spacing)])

create_cross_bracing(span_length, girder_spacing, n_girders, girder_depth, flange_thickness, bracing_spacing, thickness, flange_width, bracing_type) ==
    LET x_positions == LegacyFramePositions(span_length, bracing_spacing)
        a == [girder_spacing |-> girder_spacing, n_girders |-> n_girders,
              girder_depth |-> girder_depth, flange_thickness |-> flange_thickness,
              thickness |-> thickness, flange_width |-> flange_width,
              bracing_type |-> bracing_type]
    IN  IF ~Returned(x_positions) THEN x_positions
        ELSE IF n_girders - 1 <= 0 THEN Return(<<>>)
        ELSE ExtendAll([j \in 1 .. Len(x_positions.val) * (n_girders - 1) |->
                          LegacyBracingBetween(
                              x_positions.val[((j - 1) \div (n_girders - 1)) + 1],
                              (j - 1) % (n_girders - 1), a)])

(***************************************************************************)
(* bridge_model.py: assemble_bridge.                                        *)
(***************************************************************************)
\* the dictionary of the five groups, or the first exception among them
Assembled(built, cross_bracings, deck, crash_barriers, railings) ==
    IF ~Returned(built) THEN built
    ELSE IF ~Returned(cross_bracings) THEN cross_bracings
    ELSE IF ~Returned(deck) THEN deck
    ELSE IF ~Returned(crash_barriers) THEN crash_barriers
    ELSE IF ~Returned(railings) THEN railings
    ELSE Return([girders |-> built.val.girders,
                 stiffeners |-> built.val.stiffeners,
                 cross_bracings |-> cross_bracings.val,
                 deck |-> deck.val,
                 crash_barriers |-> crash_barriers.val,
                 railings |-> railings.val])

assemble_bridge ==
    Assembled(build_girders, build_cross_bracing, build_deck,
              build_crash_barrier(params.girder_section_d + params.deck_thickness),
              build_railing(params.girder_section_d + params.deck_thickness))

(***************************************************************************)
(* The state machine.                                                       *)
(***************************************************************************)
NoCall == [fn |-> "none", args |-> <<>>, ret |-> Return(None)]

\* no builder called yet: no module state seen, no first result, no repeat
NoHistory == [loaded |-> <<>>, first |-> <<>>, again |-> FALSE]

\* the state before the import, for a parameter block of the set P
Unloaded(P) ==
    /\ params \in P
    /\ module = "unloaded"
    /\ cross_bracing_section_props = NoProps
    /\ call = NoCall
    /\ pc = "import"
    /\ bridge = None
    /\ displayed = <<>>
    /\ history = NoHistory

Init == Unloaded(ParamSpace)

\* import bridge_model: the module-level statements, in order.  The modules
\* it imports that are not part of these sources (draw_i_section, the left
\* and right crash barrier constructors) are taken to be importable.
LoadModule ==
    /\ module = "unloaded"
    /\ LET t == params.cross_bracing_section_type
           n == params.cross_bracing_section_name
           r == get_section_props(t, n)
       IN  /\ call' = [fn |-> "get_section_props", args |-> <<t, n>>, ret |-> r]
           /\ IF Returned(r)
              THEN /\ module' = "loaded"
                   /\ cross_bracing_section_props' =
                         IF t = "DOUBLE_ANGLE"
                         THEN [connection_type |-> params.cross_bracing_connection] @@ r.val
                         ELSE r.val
              ELSE /\ module' = "failed"
                   /\ cross_bracing_section_props' = NoProps
    /\ pc' = "ready"
    /\ UNCHANGED <<params, bridge, displayed, history>>

\* After the import a run makes one entry: main(), or a direct call of one
\* function.  No call changes what a later call would read, so one direct
\* call per run reaches every result a sequence of calls can reach.

\* direct calls of the functions of the modules bridge_model imports
Standalone == module # "unloaded" /\ pc = "ready"

\* direct calls of the functions bridge_model defines, once it is loaded
InBridgeModel == module = "loaded" /\ pc = "ready"

Called(fn, args, ret) ==
    /\ call' = [fn |-> fn, args |-> args, ret |-> ret]
    /\ pc' = "called"
    /\ UNCHANGED <<params, module, cross_bracing_section_props, bridge, displayed, history>>

\* a direct call of validation.validate_bridge_inputs, with or without deck_thickness
Call_validate_bridge_inputs ==
    /\ Standalone
    /\ \E dt \in {Supplied(params.deck_thickness), NotSupplied} :
          LET a == <<params.num_girders, params.girder_spacing, params.span_length_L,
                     params.cross_bracing_spacing, dt>>
          IN  Called("validate_bridge_inputs", a,
                     validate_bridge_inputs(a[1], a[2], a[3], a[4], a[5]))

PrismArguments ==
    {<<params.span_length_L, params.railing_width, BASE_HEIGHT>>,
     <<params.span_length_L, params.carriageway_width, params.deck_thickness>>,
     <<params.footpath_width, params.railing_width, params.railing_height>>}

Call_create_rectangular_prism ==
    /\ Standalone
    /\ \E a \in PrismArguments :
          Called("create_rectangular_prism", a,
                 Return(create_rectangular_prism(R(a[1]), R(a[2]), R(a[3]))))

Call_create_deck_slab ==
    /\ Standalone
    /\ \E w \in CarriagewayWidths :
          LET a == <<params.span_length_L, w, params.deck_thickness, params.girder_section_d>>
          IN  Called("create_deck_slab", a,
                     Return(create_deck_slab(a[1], a[2], a[3], a[4])))

Call_calculate_deck_width_first ==
    /\ InBridgeModel
    /\ \E fc \in FootpathConfigs :
          Called("calculate_deck_width_first", <<fc>>, calculate_deck_width_first(fc))

Call_calculate_deck_width ==
    /\ InBridgeModel
    /\ \E fc \in FootpathConfigs :
          Called("calculate_deck_width", <<fc>>, calculate_deck_width(fc))

Call_calculate_carriageway_offset ==
    /\ InBridgeModel
    /\ \E fc \in FootpathConfigs :
          Called("calculate_carriageway_offset", <<fc>>, calculate_carriageway_offset(fc))

\* the deck_top_z a caller passes: the one assemble_bridge computes, or another
DeckTopLevels == {params.girder_section_d + params.deck_thickness, 0}

Call_build_deck ==
    /\ InBridgeModel
    /\ Called("build_deck", <<>>, build_deck)

Call_build_railing ==
    /\ InBridgeModel
    /\ \E z \in DeckTopLevels : Called("build_railing", <<z>>, build_railing(z))

Call_build_girders ==
    /\ InBridgeModel
    /\ Called("build_girders", <<>>, build_girders)

Call_build_cross_bracing ==
    /\ InBridgeModel
    /\ Called("build_cross_bracing", <<>>, build_cross_bracing)

Call_create_cross_bracing ==
    /\ Standalone
    /\ \E bt \in {params.bracing_type, "x"} :
          LET a == <<params.span_length_L, params.girder_spacing, params.num_girders,
                     params.girder_section_d, params.girder_section_tf,
                     params.cross_bracing_spacing, params.cross_bracing_thickness,
                     params.girder_section_bf, bt>>
          IN  Called("create_cross_bracing", a,
                     create_cross_bracing(a[1], a[2], a[3], a[4], a[5], a[6], a[7],
                                          a[8], a[9]))

\* the places a direct call of a bracing function is made for: the first and
\* the middle of the span, the first and the last pair of adjacent girders
BracingPlaces ==
    {<<x, g>> : x \in {R(0), RHalf(R(params.span_length_L))},
                g \in {0, params.num_girders - 2}}

\* the arguments common to both bracing functions at one place
BracingArguments(place) ==
    LET total_width == (params.num_girders - 1) * params.girder_spacing
    IN  <<place[1],
          RSub(R(place[2] * params.girder_spacing), RHalf(R(total_width))),
          RSub(R((place[2] + 1) * params.girder_spacing), RHalf(R(total_width))),
          params.girder_section_d, params.girder_section_tf,
          params.cross_bracing_thickness, params.girder_section_bf>>

\* a direct call of cross_bracing.create_x_bracing_between_girders
Call_create_x_bracing_between_girders ==
    /\ Standalone
    /\ \E place \in BracingPlaces, option \in BracketOptions :
          LET a == BracingArguments(place) \o <<option>>
          IN  Called("create_x_bracing_between_girders", a,
                     create_x_bracing_between_girders(a[1], a[2], a[3], a[4], a[5], a[6],
                                                      a[7], a[8]))

\* a direct call of cross_bracing.create_k_bracing_between_girders, with the
\* section arguments left at their defaults or taken from the parameters
Call_create_k_bracing_between_girders ==
    /\ Standalone
    /\ \E place \in BracingPlaces, top_bracket \in BOOLEAN,
          section \in {<<"BOX", NoProps>>,
                       <<params.cross_bracing_section_type, cross_bracing_section_props>>} :
          LET a == BracingArguments(place) \o <<top_bracket, section[1], section[2], 1>>
          IN  Called("create_k_bracing_between_girders", a,
                     create_k_bracing_between_girders(a[1], a[2], a[3], a[4], a[5], a[6],
                                                      a[7], a[8], a[9], a[10], a[11]))

Call_build_crash_barrier ==
    /\ InBridgeModel
    /\ \E z \in DeckTopLevels :
          Called("build_crash_barrier", <<z>>, build_crash_barrier(z))

Call_assemble_bridge ==
    /\ InBridgeModel
    /\ Called("assemble_bridge", <<>>, assemble_bridge)

(***************************************************************************)
(* bridge_model.py: main(), step by step.                                   *)
(***************************************************************************)
MainStep(fn, args, ret, next) ==
    /\ call' = [fn |-> fn, args |-> args, ret |-> ret]
    /\ pc' = IF Returned(ret) THEN next ELSE "raised"
    /\ UNCHANGED <<params, module, cross_bracing_section_props, history>>

\* validate_bridge_inputs(...), the first statement of main()
Main_validate ==
    /\ module = "loaded" /\ pc = "ready"
    /\ LET a == <<params.num_girders, params.girder_spacing, params.span_length_L,
                  params.cross_bracing_spacing, Supplied(params.deck_thickness)>>
       IN  MainStep("validate_bridge_inputs", a,
                    validate_bridge_inputs(a[1], a[2], a[3], a[4], a[5]), "validated")
    /\ UNCHANGED <<bridge, displayed>>

\* total_deck_width, carriageway_offset and the printed configuration
Main_dimensions ==
    /\ pc = "validated"
    /\ LET w == calculate_deck_width(params.footpath_config)
           o == calculate_carriageway_offset(params.footpath_config)
       IN  IF ~Returned(w)
           THEN MainStep("calculate_deck_width", <<params.footpath_config>>, w, "measured")
           ELSE MainStep("calculate_carriageway_offset", <<params.footpath_config>>, o,
                         "measured")
    /\ UNCHANGED <<bridge, displayed>>

\* init_display() and assemble_bridge()
Main_assemble ==
    /\ pc = "measured"
    /\ MainStep("assemble_bridge", <<>>, assemble_bridge, "assembled")
    /\ bridge' = IF Returned(call'.ret) THEN call'.ret.val ELSE None
    /\ UNCHANGED displayed

\* the groups in the order main() displays them; the deck texture is the
\* list place_deck_texture returns
DisplayOrder ==
    <<"girders", "stiffeners", "cross_bracings", "deck", "texture",
      "crash_barriers", "railings">>

Main_display ==
    /\ pc = "assembled"
    /\ Len(displayed) < Len(DisplayOrder)
    /\ displayed' = Append(displayed, DisplayOrder[Len(displayed) + 1])
    /\ UNCHANGED <<params, module, cross_bracing_section_props, call, pc, bridge, history>>

\* the key bindings, the view, and start_display()
Main_start_display ==
    /\ pc = "assembled"
    /\ Len(displayed) = Len(DisplayOrder)
    /\ pc' = "started"
    /\ UNCHANGED <<params, module, cross_bracing_section_props, call, bridge, displayed, history>>

Next ==
    \/ LoadModule
    \/ Call_validate_bridge_inputs
    \/ Call_create_rectangular_prism
    \/ Call_create_deck_slab
    \/ Call_calculate_deck_width_first
    \/ Call_calculate_deck_width
    \/ Call_calculate_carriageway_offset
    \/ Call_build_deck
    \/ Call_build_railing
    \/ Call_build_girders
    \/ Call_build_cross_bracing
    \/ Call_create_cross_bracing
    \/ Call_create_x_bracing_between_girders
    \/ Call_create_k_bracing_between_girders
    \/ Call_build_crash_barrier
    \/ Call_assemble_bridge
    \/ Main_validate
    \/ Main_dimensions
    \/ Main_assemble
    \/ Main_display
    \/ Main_start_display

Spec == Init /\ [][Next]_vars

(***************************************************************************)
(* Runs of builder calls: after the import, the five builders called in any *)
(* order, any number of times.                                              *)
(***************************************************************************)
\* the parameter blocks such runs start from
BuilderParams == {Defaults} \cup BracingRevisions \cup RailingRevisions

\* mutant: build_cross_bracing stores the adjusted spacing back in the module
ModuleAfter_mutant(fn) ==
    LET k == params.span_length_L \div params.cross_bracing_spacing
    IN  IF fn = "build_cross_bracing" /\ k > 0
        THEN [params EXCEPT !.cross_bracing_spacing = params.span_length_L \div k]
        ELSE params

\* the module-level parameters after a call of builder fn: no builder has a
\* global statement or writes to a module-level object, every name a builder
\* binds is its local
ModuleAfter(fn) == params

\* one call of a builder, and what the run has seen: the module state before
\* its first builder call, the first result of each builder, and whether some
\* builder has been called again
Build(fn, args, ret) ==
    /\ pc \in {"ready", "built"}
    /\ pc' = "built"
    /\ call' = [fn |-> fn, args |-> args, ret |-> ret]
    /\ params' = ModuleAfter(fn)
    /\ history' =
          [loaded |-> IF DOMAIN history.first = {}
                      THEN <<params, cross_bracing_section_props>>
                      ELSE history.loaded,
           first |-> IF fn \in DOMAIN history.first THEN history.first
                     ELSE history.first @@ (fn :> ret),
           again |-> history.again \/ fn \in DOMAIN history.first]
    /\ UNCHANGED <<module, cross_bracing_section_props, bridge, displayed>>

Build_girders ==
    /\ module = "loaded"
    /\ Build("build_girders", <<>>, build_girders)

Build_deck ==
    /\ module = "loaded"
    /\ Build("build_deck", <<>>, build_deck)

Build_cross_bracing ==
    /\ module = "loaded"
    /\ Build("build_cross_bracing", <<>>, build_cross_bracing)

\* deck_top_z as assemble_bridge passes it
Build_crash_barrier ==
    /\ module = "loaded"
    /\ LET deck_top_z == params.girder_section_d + params.deck_thickness
       IN  Build("build_crash_barrier", <<deck_top_z>>, build_crash_barrier(deck_top_z))

Build_railing ==
    /\ module = "loaded"
    /\ LET deck_top_z == params.girder_section_d + params.deck_thickness
       IN  Build("build_railing", <<deck_top_z>>, build_railing(deck_top_z))

InitBuilders == Unloaded(BuilderParams)

NextBuilders ==
    \/ LoadModule
    \/ Build_girders
    \/ Build_deck
    \/ Build_cross_bracing
    \/ Build_crash_barrier
    \/ Build_railing

SpecBuilders == InitBuilders /\ [][NextBuilders]_vars

(***************************************************************************)
(* The claims.                                                              *)
(***************************************************************************)
FourConfigs == {"NONE", "LEFT", "RIGHT", "BOTH"}

\* the deck width each configuration is claimed to have
ClaimedDeckWidth(fc) ==
    params.carriageway_width + 2 * params.crash_barrier_base_width
    + (CASE fc = "NONE" -> 0
         [] fc \in {"LEFT", "RIGHT"} -> params.footpath_width + params.railing_width
         [] fc = "BOTH" -> 2 * params.footpath_width + 2 * params.railing_width)

C1_InRange(a) ==
    /\ 2 < a[1] /\ a[1] < 12
    /\ 1000 < a[2] /\ a[2] < 24000
    /\ 20000 < a[3] /\ a[3] < 45000
    /\ 1000 < a[4] /\ a[4] < a[3]
    /\ 4250 < (a[1] - 1) * a[2] /\ (a[1] - 1) * a[2] < 24000
    /\ (a[5] # NotSupplied => 100 < a[5][1] /\ a[5][1] < 500)

\* C1: validate_bridge_inputs returns exactly when every range condition
\* holds (the deck thickness one only when it is supplied), raises ValueError
\* otherwise, and every accepted input is strictly positive.
C1_ValidationContract ==
    call.fn = "validate_bridge_inputs" =>
        LET a == call.args
        IN  /\ Returned(call.ret) <=> C1_InRange(a)
            /\ ~C1_InRange(a) => call.ret.exc = "ValueError"
            /\ Returned(call.ret) =>
                  /\ a[1] > 0 /\ a[2] > 0 /\ a[3] > 0 /\ a[4] > 0
                  /\ (a[5] # NotSupplied => a[5][1] > 0)

C1_Witness ==
    /\ call.fn = "validate_bridge_inputs"
    /\ Returned(call.ret)
    /\ call.args[5] # NotSupplied

\* C2: both definitions of calculate_deck_width return the carriageway plus
\* two barrier bases, plus footpath and railing once for LEFT and for RIGHT
\* and twice for BOTH, and raise ValueError for any other configuration; so
\* the two definitions agree on every input.
C2_DeckWidth ==
    call.fn \in {"calculate_deck_width_first", "calculate_deck_width"} =>
        LET fc == call.args[1]
        IN  /\ fc \in FourConfigs => call.ret = Return(ClaimedDeckWidth(fc))
            /\ fc \notin FourConfigs => call.ret = Raise("ValueError")
            /\ call.ret = calculate_deck_width_first(fc)
            /\ call.ret = calculate_deck_width(fc)

C2_Witness ==
    /\ call.fn = "calculate_deck_width"
    /\ call.args[1] = "LEFT"
    /\ Returned(call.ret)
    /\ call.ret.val = params.carriageway_width + 2 * params.crash_barrier_base_width
                      + params.footpath_width + params.railing_width

\* C3: calculate_carriageway_offset returns 0 for NONE and BOTH, plus half of
\* footpath and railing for LEFT, minus that for RIGHT (each the negative of
\* the other), and raises ValueError for any other configuration.
C3_CarriagewayOffset ==
    call.fn = "calculate_carriageway_offset" =>
        LET fc == call.args[1]
            shift == RHalf(R(params.footpath_width + params.railing_width))
        IN  /\ fc \in {"NONE", "BOTH"} => call.ret = Return(R(0))
            /\ fc = "LEFT" =>
                  /\ call.ret = Return(shift)
                  /\ RLt(R(0), call.ret.val)
                  /\ call.ret.val = RNeg(calculate_carriageway_offset("RIGHT").val)
            /\ fc = "RIGHT" =>
                  /\ call.ret = Return(RNeg(shift))
                  /\ call.ret.val = RNeg(calculate_carriageway_offset("LEFT").val)
            /\ fc \notin FourConfigs => call.ret = Raise("ValueError")

C3_Witness ==
    /\ call.fn = "calculate_carriageway_offset"
    /\ call.args[1] = "RIGHT"
    /\ Returned(call.ret)
    /\ RLt(call.ret.val, R(0))

\* C5: build_railing returns no railing for NONE, one at the left deck edge
\* for LEFT, one at the right deck edge for RIGHT and both, left first, for
\* BOTH; each is the base railing, unmodified, translated to x = span/2 and
\* z = deck_top_z, spanning X from 0 to the span with its outer face on the
\* deck edge.
C5_RailingAt(r, side, z) ==
    LET L == params.span_length_L
        rw == params.railing_width
        dhw == RHalf(R(ClaimedDeckWidth(params.footpath_config)))
        inner == RSub(dhw, RHalf(R(rw)))
        y == IF side = "left" THEN RNeg(inner) ELSE inner
        base == create_railing(L, rw, params.railing_height, params.rail_count).val
    IN  /\ r.at = <<RHalf(R(L)), y, R(z)>>
        /\ r.shape = base.shape /\ base.at = Origin
        /\ Lo(r)[1] = R(0) /\ Hi(r)[1] = R(L)
        /\ Lo(r)[3] = R(z)
        /\ IF side = "left" THEN Lo(r)[2] = RNeg(dhw) ELSE Hi(r)[2] = dhw

C5_Railings ==
    (call.fn = "build_railing" /\ params.footpath_config \in FourConfigs) =>
        LET fc == params.footpath_config
            z == call.args[1]
            rs == call.ret.val
        IN  /\ Returned(call.ret)
            /\ fc = "NONE" => rs = <<>>
            /\ fc = "LEFT" => Len(rs) = 1 /\ C5_RailingAt(rs[1], "left", z)
            /\ fc = "RIGHT" => Len(rs) = 1 /\ C5_RailingAt(rs[1], "right", z)
            /\ fc = "BOTH" =>
                  /\ Len(rs) = 2
                  /\ C5_RailingAt(rs[1], "left", z)
                  /\ C5_RailingAt(rs[2], "right", z)

C5_Witness ==
    /\ call.fn = "build_railing"
    /\ params.footpath_config = "BOTH"
    /\ Returned(call.ret)
    /\ Len(call.ret.val) = 2

\* the barrier of one kind among those returned
C4_Barrier(bs, kind) == bs[CHOOSE j \in DOMAIN bs : bs[j].kind = kind]

\* C4: for each of the four configurations build_crash_barrier returns
\* exactly two barriers, one right and one left, each the constructor's solid
\* translated to x = 0 and z = deck_top_z, the right one at the right
\* carriageway edge plus half a base width and the left one at the left
\* carriageway edge minus half a base width; on a side without a footpath the
\* outer edge of the base strip is the deck edge.
C4_CrashBarriers ==
    (call.fn = "build_crash_barrier" /\ params.footpath_config \in FourConfigs) =>
        LET fc == params.footpath_config
            z == call.args[1]
            bs == call.ret.val
            b == R(params.crash_barrier_base_width)
            shift == RHalf(R(params.footpath_width + params.railing_width))
            offset == CASE fc = "LEFT" -> shift
                        [] fc = "RIGHT" -> RNeg(shift)
                        [] OTHER -> R(0)
            e_right == RAdd(offset, RHalf(R(params.carriageway_width)))
            e_left == RSub(offset, RHalf(R(params.carriageway_width)))
            dhw == RHalf(R(ClaimedDeckWidth(fc)))
            right == C4_Barrier(bs, "crash_barrier_right")
            left == C4_Barrier(bs, "crash_barrier_left")
        IN  /\ Returned(call.ret)
            /\ Len(bs) = 2
            /\ {bs[1].kind, bs[2].kind} = {"crash_barrier_right", "crash_barrier_left"}
            /\ right.at = <<R(0), RAdd(e_right, RHalf(b)), R(z)>>
            /\ left.at = <<R(0), RSub(e_left, RHalf(b)), R(z)>>
            /\ right.shape = create_crash_barrier_right(
                                 params.span_length_L, params.crash_barrier_width,
                                 params.crash_barrier_height,
                                 params.crash_barrier_base_width).shape
            /\ left.shape = create_crash_barrier_left(
                                params.span_length_L, params.crash_barrier_width,
                                params.crash_barrier_height,
                                params.crash_barrier_base_width).shape
            /\ fc \in {"NONE", "LEFT"} =>
                  /\ right.at[2] = RSub(dhw, RHalf(b))
                  /\ RAdd(right.at[2], RHalf(b)) = dhw
            /\ fc \in {"NONE", "RIGHT"} =>
                  /\ left.at[2] = RNeg(RSub(dhw, RHalf(b)))
                  /\ RSub(left.at[2], RHalf(b)) = RNeg(dhw)

C4_Witness ==
    /\ call.fn = "build_crash_barrier"
    /\ params.footpath_config = "LEFT"
    /\ call.args[1] > 0
    /\ Returned(call.ret)
    /\ Len(call.ret.val) = 2
    /\ call.ret.val[1].kind = "crash_barrier_right"
    /\ RLt(call.ret.val[2].at[2], R(0))

\* the inputs validate_bridge_inputs accepts, read from the parameters
C6_Validated ==
    Returned(validate_bridge_inputs(params.num_girders, params.girder_spacing,
                                    params.span_length_L, params.cross_bracing_spacing,
                                    Supplied(params.deck_thickness)))

\* the frame positions claimed: i * span_length / k, k = floor(span_length / spacing)
C6_ClaimedPositions ==
    LET k == params.span_length_L \div params.cross_bracing_spacing
    IN  {RDiv(R(i * params.span_length_L), R(k)) : i \in 0 .. k}

\* C6: for every input validate_bridge_inputs accepts and either bracing
\* type, build_cross_bracing and the legacy create_cross_bracing return
\* bracing whose frames stand at x_i = i * span_length / k for i = 0 .. k,
\* k = floor(span_length / cross_bracing_spacing): at 0, at the span length
\* and at equal gaps between, in that order.
C6_FramePositions ==
    (/\ call.fn \in {"build_cross_bracing", "create_cross_bracing"}
     /\ C6_Validated
     /\ params.bracing_type \in {"X", "K"}) =>
        /\ Returned(call.ret)
        /\ LET ms == call.ret.val
           IN  /\ {ms[j].at[1] : j \in DOMAIN ms} = C6_ClaimedPositions
               /\ R(0) \in C6_ClaimedPositions
               /\ R(params.span_length_L) \in C6_ClaimedPositions
               /\ \A j \in DOMAIN ms : j > 1 => RLe(ms[j - 1].at[1], ms[j].at[1])

\* the web centre of girder i (from 0), from the faces of the web its two
\* stiffener plates bear on
C7_WebCentre(built, i) ==
    LET left == built.stiffeners[2 * i + 1]
        right == built.stiffeners[2 * i + 2]
    IN  RHalf(RAdd(Hi(left)[2], Lo(right)[2]))

\* C7: build_girders places girder i at y_i = i * spacing - (n - 1) * spacing / 2,
\* occupying Y from y_i to y_i + bf, and the girders are mirror-symmetric about
\* Y = 0: the web centres of girder i and of girder n - 1 - i are at opposite Y.
C7_GirdersSymmetric ==
    call.fn = "build_girders" =>
        /\ Returned(call.ret)
        /\ LET n == params.num_girders
               built == call.ret.val
           IN  \A i \in 0 .. n - 1 :
                  /\ Lo(built.girders[i + 1])[2]
                        = RSub(R(i * params.girder_spacing),
                               RHalf(R((n - 1) * params.girder_spacing)))
                  /\ Hi(built.girders[i + 1])[2]
                        = RAdd(Lo(built.girders[i + 1])[2], R(params.girder_section_bf))
                  /\ C7_WebCentre(built, i) = RNeg(C7_WebCentre(built, n - 1 - i))

C8_Occupies(solid, lo, hi) == Lo(solid) = lo /\ Hi(solid) = hi

\* C8: create_rectangular_prism(l, b, h) occupies X in [-l/2, l/2], Y in
\* [-b/2, b/2], Z in [0, h]; the deck slab occupies X in [0, span], Y in
\* [-width/2, width/2], Z in [girder depth, girder depth + thickness], for
\* every footpath configuration; and the top of the deck assemble_bridge
\* returns is the level at which its crash barriers and railings stand.
C8_DeckExtents ==
    /\ call.fn = "create_rectangular_prism" =>
          LET l == R(call.args[1])
              b == R(call.args[2])
              h == R(call.args[3])
          IN  C8_Occupies(call.ret.val,
                          <<RNeg(RHalf(l)), RNeg(RHalf(b)), R(0)>>,
                          <<RHalf(l), RHalf(b), h>>)
    /\ call.fn = "create_deck_slab" =>
          LET a == call.args
          IN  C8_Occupies(call.ret.val,
                          <<R(0), RNeg(RHalf(R(a[2]))), R(a[4])>>,
                          <<R(a[1]), RHalf(R(a[2])), R(a[4] + a[3])>>)
    /\ (call.fn = "build_deck" /\ params.footpath_config \in FourConfigs) =>
          /\ Returned(call.ret)
          /\ LET w == R(ClaimedDeckWidth(params.footpath_config))
             IN  C8_Occupies(call.ret.val,
                             <<R(0), RNeg(RHalf(w)), R(params.girder_section_d)>>,
                             <<R(params.span_length_L), RHalf(w),
                               R(params.girder_section_d + params.deck_thickness)>>)
    /\ (call.fn = "assemble_bridge" /\ Returned(call.ret)) =>
          LET b == call.ret.val
              deck_top_z == R(params.girder_section_d + params.deck_thickness)
          IN  /\ Hi(b.deck)[3] = deck_top_z
              /\ RNeg(Lo(b.deck)[2]) = Hi(b.deck)[2]
              /\ \A j \in DOMAIN b.crash_barriers : b.crash_barriers[j].at[3] = deck_top_z
              /\ \A j \in DOMAIN b.railings :
                    /\ b.railings[j].at[3] = deck_top_z
                    /\ Lo(b.railings[j])[3] = deck_top_z

C8_Witness ==
    /\ call.fn = "assemble_bridge"
    /\ Returned(call.ret)
    /\ params.footpath_config = "RIGHT"
    /\ Len(call.ret.val.railings) = 1
    /\ Len(call.ret.val.crash_barriers) = 2
    /\ Hi(call.ret.val.deck)[3] = R(params.girder_section_d + params.deck_thickness)

\* C9: loading bridge_model and running main() with the default parameters
\* raises no exception at any step: the section properties resolve, the module
\* loads, no step of main() raises, and once the bridge is assembled it holds
\* the six groups.
C9_DefaultsRun ==
    params = Defaults =>
        /\ module # "failed"
        /\ pc # "raised"
        /\ (call.fn = "get_section_props" => Returned(call.ret))
        /\ (pc \in {"assembled", "started"} =>
               DOMAIN bridge = {"girders", "stiffeners", "cross_bracings", "deck",
                                "crash_barriers", "railings"})

\* the section types create_section_solid builds from properties, and the
\* table of designations that matches each
C10_Table(section_type) ==
    IF section_type \in {"ANGLE", "DOUBLE_ANGLE"} THEN ISA_SECTIONS
    ELSE IF section_type \in {"CHANNEL", "DOUBLE_CHANNEL"} THEN CHANNEL_SECTIONS
    ELSE <<>>

\* C10: get_section_props returns the properties of the designation for
\* ANGLE, DOUBLE_ANGLE, CHANNEL and DOUBLE_CHANNEL with a designation of the
\* matching table, raises ValueError for any other type or designation, and
\* resolves (DOUBLE_ANGLE, ISA_90x60x6) to leg_h 90, leg_w 60, thickness 6.
C10_SectionProps ==
    call.fn = "get_section_props" =>
        LET t == call.args[1]
            n == call.args[2]
        IN  /\ n \in DOMAIN C10_Table(t) => call.ret = Return(C10_Table(t)[n])
            /\ n \notin DOMAIN C10_Table(t) => call.ret = Raise("ValueError")
            /\ (t = "DOUBLE_ANGLE" /\ n = "ISA_90x60x6") =>
                  call.ret = Return([leg_h |-> 90, leg_w |-> 60, thickness |-> 6])

\* the levels and the ends of the chords, from the arguments a of a call of
\* either bracing function
C11_Z_bottom(a) == RHalf(R(a[5]))
C11_Z_top(a) == RSub(R(a[4]), RHalf(R(a[5])))
C11_Y_start(a) == RAdd(a[2], R(a[7]))
C11_Y_mid(a) == RHalf(RAdd(C11_Y_start(a), a[3]))

\* a chord at level z: from y_left + flange_width to y_right
C11_Chord(m, a, z) ==
    /\ m.kind = "horizontal"
    /\ m.shape.from = <<a[1], C11_Y_start(a), z>>
    /\ m.shape.to = <<a[1], a[3], z>>

\* a diagonal from p1 to p2
C11_Diagonal(m, p1, p2) ==
    m.kind = "diagonal" /\ m.shape.from = p1 /\ m.shape.to = p2

\* C11: create_k_bracing_between_girders returns two diagonals and the bottom
\* chord, and the top chord exactly when top_bracket is true (3 or 4
\* members); both diagonals start at z_top on a girder (y_left + flange_width
\* and y_right) and end at the same point (y_mid, z_bottom), y_mid the
\* midpoint of the bottom chord's span.  It returns whenever the section is
\* BOX or comes with its properties.
C11_KBracing ==
    call.fn = "create_k_bracing_between_girders" =>
        LET a == call.args
            ms == call.ret.val
        IN  /\ (a[9] = "BOX" \/ ~IsNone(a[10])) => Returned(call.ret)
            /\ Returned(call.ret) =>
                  /\ Len(ms) = IF a[8] THEN 4 ELSE 3
                  /\ C11_Diagonal(ms[1], <<a[1], C11_Y_start(a), C11_Z_top(a)>>,
                                  <<a[1], C11_Y_mid(a), C11_Z_bottom(a)>>)
                  /\ C11_Diagonal(ms[2], <<a[1], a[3], C11_Z_top(a)>>,
                                  <<a[1], C11_Y_mid(a), C11_Z_bottom(a)>>)
                  /\ ms[1].shape.to = ms[2].shape.to
                  /\ C11_Chord(ms[3], a, C11_Z_bottom(a))
                  /\ ms[1].shape.to[2]
                        = RHalf(RAdd(ms[3].shape.from[2], ms[3].shape.to[2]))
                  /\ ms[3].at[2] = ms[1].shape.to[2]
                  /\ a[8] => C11_Chord(ms[4], a, C11_Z_top(a))

C11_Witness ==
    /\ call.fn = "create_k_bracing_between_girders"
    /\ Returned(call.ret)
    /\ call.args[8]
    /\ call.args[9] = "ANGLE"
    /\ Len(call.ret.val) = 4
    /\ call.ret.val[1].shape.to = call.ret.val[2].shape.to

\* C12: create_x_bracing_between_girders returns the two crossing diagonals,
\* the bottom chord exactly for LOWER and BOTH and the top chord exactly for
\* UPPER and BOTH: 2, 3, 3 and 4 members for NONE, LOWER, UPPER and BOTH; any
\* other option gives the two diagonals only and no error.
C12_XBracing ==
    call.fn = "create_x_bracing_between_girders" =>
        LET a == call.args
            ms == call.ret.val
            option == a[8]
            lower == option \in {"LOWER", "BOTH"}
            upper == option \in {"UPPER", "BOTH"}
        IN  /\ Returned(call.ret)
            /\ Len(ms) = CASE option = "NONE" -> 2
                           [] option = "LOWER" -> 3
                           [] option = "UPPER" -> 3
                           [] option = "BOTH" -> 4
                           [] OTHER -> 2
            /\ C11_Diagonal(ms[1], <<a[1], C11_Y_start(a), C11_Z_bottom(a)>>,
                            <<a[1], a[3], C11_Z_top(a)>>)
            /\ C11_Diagonal(ms[2], <<a[1], C11_Y_start(a), C11_Z_top(a)>>,
                            <<a[1], a[3], C11_Z_bottom(a)>>)
            /\ lower => C11_Chord(ms[3], a, C11_Z_bottom(a))
            /\ upper => C11_Chord(ms[IF lower THEN 4 ELSE 3], a, C11_Z_top(a))
            /\ \A j \in DOMAIN ms : j > 2 => ms[j].kind = "horizontal"
            /\ \A j \in DOMAIN ms :
                  (ms[j].kind = "horizontal" /\ ms[j].at[3] = C11_Z_bottom(a)) => lower
            /\ \A j \in DOMAIN ms :
                  (ms[j].kind = "horizontal" /\ ms[j].at[3] = C11_Z_top(a)) => upper

C12_Witness ==
    /\ call.fn = "create_x_bracing_between_girders"
    /\ call.args[8] = "BOTH"
    /\ Returned(call.ret)
    /\ Len(call.ret.val) = 4
    /\ call.ret.val[3].at[3] = C11_Z_bottom(call.args)
    /\ call.ret.val[4].at[3] = C11_Z_top(call.args)

Builders ==
    {"build_girders", "build_deck", "build_cross_bracing", "build_crash_barrier",
     "build_railing"}

====
